---- MODULE Spec2Model ----
(***************************************************************************)
(* Birth-registration service (src/main.py): a FastAPI application with    *)
(* four endpoints, each wrapped by the fixed-window rate_limit decorator,  *)
(* over one SQLite table `births`.                                         *)
(*                                                                         *)
(* Scheduling.  Every endpoint is an `async def` served by one event loop  *)
(* (uvicorn.run(app, ...), main.py:209-212).  Neither rate_limit.wrapper   *)
(* nor any handler body contains a suspension point: the only `await` is   *)
(* `await func(...)` at main.py:113, which runs the handler coroutine      *)
(* inline, and the sqlite3 calls are blocking.  A request is therefore one *)
(* atomic step (validation of the arguments by the framework, the wrapper, *)
(* the handler), and concurrent requests are executed in an arbitrary      *)
(* order: the order in which Next takes the actions.                       *)
(*                                                                         *)
(* Time is counted in whole seconds since the process started; both        *)
(* time.time() and datetime.now() read the clock `now`.                    *)
(***************************************************************************)
EXTENDS Integers, Sequences, FiniteSets, TLC

VARIABLES
    now,              \* the system clock
    ticks,            \* number of clock advances so far (bounds the clock)
    last_reset,       \* rate_limit: last_reset[func.__name__]  (a dict)
    call_count,       \* rate_limit: call_count[func.__name__]  (a dict)
    births,           \* the rows of table births
    sqlite_sequence,  \* AUTOINCREMENT bookkeeping: largest rowid ever used
    executed,         \* history: handler bodies run per endpoint since its window started
    issued,           \* history: every id ever given to a row
    purged,           \* history: the (father_id, mother_id) pairs of the rows purged
    throttled,        \* history: the endpoints that have answered 429
    last              \* the response to the last request served

vars == <<now, ticks, last_reset, call_count, births, sqlite_sequence,
          executed, issued, purged, throttled, last>>

----------------------------------------------------------------------------
(* Bounds of the exploration *)

MaxRequests == 3
MaxTicks == 1

----------------------------------------------------------------------------
(* Configuration: the decorators' arguments *)

RootCalls == 100
RootPeriod == 60
SaveCalls == 10
SavePeriod == 60
PurgeCalls == 5
PurgePeriod == 3600
SearchCalls == 20
SearchPeriod == 60
RetentionDays == 30
SecondsPerDay == 86400

Endpoints == {"read_root", "save_data", "delete_old_entries", "search_data"}

Calls(ep) ==
    CASE ep = "read_root" -> RootCalls
      [] ep = "save_data" -> SaveCalls
      [] ep = "delete_old_entries" -> PurgeCalls
      [] ep = "search_data" -> SearchCalls

Period(ep) ==
    CASE ep = "read_root" -> RootPeriod
      [] ep = "save_data" -> SavePeriod
      [] ep = "delete_old_entries" -> PurgePeriod
      [] ep = "search_data" -> SearchPeriod

----------------------------------------------------------------------------
(* Inputs *)

\* The two literals of BirthData.father_id_type / mother_id_type
\* (ASCII stand-ins for the two Arabic strings of main.py:48).
IdTypes == {"unified_number", "civil_registry_number"}

Pairs == {<<1, 1>>, <<1, 2>>}
Hospitals == {"HA", "HB"}
GoodDate == <<"2", "0", "2", "4", "-", "1", "3", "-", "4", "0">>
BadDate == <<"2", "0", "2", "4", "-", "1", "-", "4">>

BirthDataOf(ft, p, name, hosp, date) ==
    [father_id_type |-> ft, father_id |-> p[1],
     mother_id_type |-> "civil_registry_number", mother_id |-> p[2],
     mother_name |-> name, hospital_name |-> hosp, birth_date |-> date]

ValidInputs ==
    {BirthDataOf("unified_number", <<1, 1>>, "Mo", h, GoodDate) : h \in Hospitals}
    \cup {BirthDataOf("civil_registry_number", <<1, 2>>, "Mo", "HA", GoodDate)}

\* Ten characters that are not the date pattern, and a name of 101 characters
SlashDate == <<"2", "0", "2", "4", "/", "1", "3", "/", "4", "0">>
LongName == "NNNNNNNNNNNNNNNNNNNNNNNNNNNNNNNNNNNNNNNNNNNNNNNNNNNNNNNNNNNNNNNNNNNNNNNNNNNNNNNNNNNNNNNNNNNNNNNNNNNNN"

InvalidInputs ==
    {BirthDataOf("X", <<1, 1>>, "Mo", "HA", GoodDate),
     [BirthDataOf("unified_number", <<1, 1>>, "Mo", "HA", GoodDate)
        EXCEPT !.mother_id_type = "X"],
     BirthDataOf("unified_number", <<1, 1>>, "M", "HA", GoodDate),
     BirthDataOf("unified_number", <<1, 1>>, LongName, "HA", GoodDate),
     BirthDataOf("unified_number", <<1, 1>>, "Mo", "H", GoodDate),
     BirthDataOf("unified_number", <<1, 1>>, "Mo", LongName, GoodDate),
     BirthDataOf("unified_number", <<1, 1>>, "Mo", "HA", BadDate),
     BirthDataOf("unified_number", <<1, 1>>, "Mo", "HA", SlashDate)}

SubmitInputs == ValidInputs \cup InvalidInputs

\* Clock advances: one 60 s period, exactly the retention window, and the
\* retention window plus one period (which also exceeds the 3600 s period).
TickSteps == {60, RetentionDays * SecondsPerDay, RetentionDays * SecondsPerDay + 60}

----------------------------------------------------------------------------
(* BirthData: the pydantic model the framework validates a Submit body     *)
(* against before the endpoint function is called.                         *)

Digits == {"0", "1", "2", "3", "4", "5", "6", "7", "8", "9"}

\* Variant: only the length of the date is checked.
MatchesDatePattern_LengthOnly(s) == Len(s) = 10

\* pattern=r"^\d{4}-\d{2}-\d{2}$"
MatchesDatePattern(s) ==
    /\ Len(s) = 10
    /\ \A i \in {1, 2, 3, 4, 6, 7, 9, 10} : s[i] \in Digits
    /\ s[5] = "-"
    /\ s[8] = "-"

\* Variant: the body is not validated.
Validate_None(d) == TRUE

Validate(d) ==
    /\ d.father_id_type \in IdTypes
    /\ d.father_id \in Int
    /\ d.mother_id_type \in IdTypes
    /\ d.mother_id \in Int
    /\ Len(d.mother_name) >= 2 /\ Len(d.mother_name) <= 100
    /\ Len(d.hospital_name) >= 2 /\ Len(d.hospital_name) <= 100
    /\ MatchesDatePattern(d.birth_date)

----------------------------------------------------------------------------
(* rate_limit(calls, period): each decorated function owns the dicts       *)
(* last_reset and call_count, keyed by func.__name__; the four function    *)
(* names differ, so one dict pair keyed by the name holds them all.        *)

\* Variant: the window restarts only after more than a period.
WindowElapsed_Strict(ep, lr, t) == t - lr > Period(ep)

\* now - last_reset[func.__name__] >= period
WindowElapsed(ep, lr, t) == t - lr >= Period(ep)

\* Variant: off by one, a call at count = calls is still let through.
OverLimit_OffByOne(ep, cc) == cc > Calls(ep)

\* call_count[func.__name__] >= calls
OverLimit(ep, cc) == cc >= Calls(ep)

\* Variant: the update of the counter is lost.
Increment_Lost(cc) == cc

\* call_count[func.__name__] += 1
Increment(cc) == cc + 1

\* The wrapper up to (not including) `await func(...)`: whether the call is
\* let through, and the two dicts afterwards.
\* Variant: the counter is incremented before the limit is checked, so a
\* rejected call is counted too.
wrapper_CountsRejected(ep, lr, cc, t) ==
    LET seen == ep \in DOMAIN lr
        lr1 == IF seen THEN lr[ep] ELSE t
        cc1 == IF seen THEN cc[ep] ELSE 0
        reset == WindowElapsed(ep, lr1, t)
        lr2 == IF reset THEN t ELSE lr1
        cc2 == IF reset THEN 0 ELSE cc1
        over == OverLimit(ep, cc2)
    IN  [admit |-> ~over,
         last_reset |-> (ep :> lr2) @@ lr,
         call_count |-> (ep :> Increment(cc2)) @@ cc]

\* Variant: the window of an endpoint not seen before starts when the
\* process started (time 0), not at the call.
wrapper_InitAtStart(ep, lr, cc, t) ==
    LET seen == ep \in DOMAIN lr
        lr1 == IF seen THEN lr[ep] ELSE 0
        cc1 == IF seen THEN cc[ep] ELSE 0
        reset == WindowElapsed(ep, lr1, t)
        lr2 == IF reset THEN t ELSE lr1
        cc2 == IF reset THEN 0 ELSE cc1
        over == OverLimit(ep, cc2)
    IN  [admit |-> ~over,
         last_reset |-> (ep :> lr2) @@ lr,
         call_count |-> (ep :> (IF over THEN cc2 ELSE Increment(cc2))) @@ cc]

\* Variant: one counter for all endpoints; a call let through is counted
\* against every endpoint seen so far.
wrapper_SharedCounter(ep, lr, cc, t) ==
    LET seen == ep \in DOMAIN lr
        lr1 == IF seen THEN lr[ep] ELSE t
        cc1 == IF seen THEN cc[ep] ELSE 0
        reset == WindowElapsed(ep, lr1, t)
        lr2 == IF reset THEN t ELSE lr1
        cc2 == IF reset THEN 0 ELSE cc1
        over == OverLimit(ep, cc2)
    IN  [admit |-> ~over,
         last_reset |-> (ep :> lr2) @@ lr,
         call_count |-> (ep :> (IF over THEN cc2 ELSE Increment(cc2)))
                            @@ [e \in DOMAIN cc |-> IF over THEN cc[e] ELSE Increment(cc[e])]]

wrapper(ep, lr, cc, t) ==
    LET seen == ep \in DOMAIN lr
        lr1 == IF seen THEN lr[ep] ELSE t
        cc1 == IF seen THEN cc[ep] ELSE 0
        reset == WindowElapsed(ep, lr1, t)
        lr2 == IF reset THEN t ELSE lr1
        cc2 == IF reset THEN 0 ELSE cc1
        over == OverLimit(ep, cc2)
    IN  [admit |-> ~over,
         last_reset |-> (ep :> lr2) @@ lr,
         call_count |-> (ep :> (IF over THEN cc2 ELSE Increment(cc2))) @@ cc]

----------------------------------------------------------------------------
(* The table births and the statements run against it *)

\* datetime.isoformat(): fixed-width fields, most significant first
\* (date, hour, minute, second); SQLite compares the TEXT values field by
\* field from the left.
IsoFormat(t) ==
    <<t \div SecondsPerDay, (t % SecondsPerDay) \div 3600, (t % 3600) \div 60, t % 60>>

RECURSIVE TextLess(_, _)
TextLess(a, b) ==
    IF a = <<>> \/ b = <<>> THEN a = <<>> /\ b # <<>>
    ELSE IF Head(a) # Head(b) THEN Head(a) < Head(b)
    ELSE TextLess(Tail(a), Tail(b))

MaxOf(S) == IF S = {} THEN 0 ELSE CHOOSE x \in S : \A y \in S : y <= x

\* Variant: a plain INTEGER PRIMARY KEY, one more than the largest rowid
\* now in the table.
NextRowId_Rowid(rows, sq) == MaxOf({r.id : r \in rows}) + 1

\* id INTEGER PRIMARY KEY AUTOINCREMENT: one more than the largest rowid the
\* table has ever held.
NextRowId(rows, sq) == MaxOf({sq} \cup {r.id : r \in rows}) + 1

\* WHERE father_id = ? AND mother_id = ?
Matching(rows, f, m) == {r \in rows : r.father_id = f /\ r.mother_id = m}

\* Variant: no lookup before the insert.
SelectHospital_None(rows, f, m) == {}

\* Variant: rows are only marked as deleted, and the lookup still sees the
\* pairs of purged rows.
SelectHospital_Remembered(rows, f, m) ==
    LET hit == Matching(rows, f, m)
    IN  IF hit = {} THEN (IF <<f, m>> \in purged THEN {"HA"} ELSE {})
        ELSE {(CHOOSE r \in hit : \A q \in hit : r.id <= q.id).hospital_name}

\* SELECT hospital_name ... ; cursor.fetchone(): the first row in rowid
\* order, or None (the empty set here).
SelectHospital(rows, f, m) ==
    LET hit == Matching(rows, f, m)
    IN  IF hit = {} THEN {}
        ELSE {(CHOOSE r \in hit : \A q \in hit : r.id <= q.id).hospital_name}

\* Variant: the values are bound in another order than the columns.
InsertRow_Swapped(rows, sq, d, t) ==
    rows \cup {[id |-> NextRowId(rows, sq),
                father_id |-> d.father_id, mother_id |-> d.mother_id,
                mother_name |-> d.hospital_name, hospital_name |-> d.mother_name,
                birth_date |-> d.birth_date, created_at |-> IsoFormat(t)]}

\* INSERT INTO births (...) VALUES (...)
InsertRow(rows, sq, d, t) ==
    rows \cup {[id |-> NextRowId(rows, sq),
                father_id |-> d.father_id, mother_id |-> d.mother_id,
                mother_name |-> d.mother_name, hospital_name |-> d.hospital_name,
                birth_date |-> d.birth_date, created_at |-> IsoFormat(t)]}

\* Variant: the retention window is not subtracted.
CutoffTime_Now(t) == IsoFormat(t)

\* cutoff_time = (datetime.now() - timedelta(days=30)).isoformat()
CutoffTime(t) == IsoFormat(t - RetentionDays * SecondsPerDay)

\* Variant: created_at <= ?
OldRows_OrEqual(rows, cutoff) == {r \in rows : ~TextLess(cutoff, r.created_at)}

\* DELETE FROM births WHERE created_at < ?  (the rows it removes)
OldRows(rows, cutoff) == {r \in rows : TextLess(r.created_at, cutoff)}

----------------------------------------------------------------------------
(* Handler results: the response and the table after the handler *)

Return(reason, data, deleted, rows, sq) ==
    [status |-> 200, reason |-> reason, wrapped |-> 0, hospital |-> "",
     data |-> data, deleted_count |-> deleted, births |-> rows, sqlite_sequence |-> sq]

\* raise HTTPException(status_code=..., detail=...): nothing was committed
Raise(status, reason, hosp, rows, sq) ==
    [status |-> status, reason |-> reason, wrapped |-> 0, hospital |-> hosp,
     data |-> {}, deleted_count |-> 0, births |-> rows, sqlite_sequence |-> sq]

\* except Exception as e: raise HTTPException(status_code=500, detail=str(e))
\* HTTPException is an Exception, so the handler's own 400/404 end here too;
\* str(e) keeps the original status and detail as text.
ExceptException(r) ==
    IF r.status = 200 THEN r ELSE [r EXCEPT !.status = 500, !.wrapped = r.status]

\* Variant: the INSERT is never committed.
save_data_body_NoCommit(d, rows, sq, t) ==
    IF SelectHospital(rows, d.father_id, d.mother_id) # {}
    THEN Raise(400, "duplicate", "", rows, sq)
    ELSE Return("saved", {}, 0, rows, sq)

save_data_body(d, rows, sq, t) ==
    IF d.father_id_type \notin IdTypes THEN Raise(400, "father_id_type", "", rows, sq)
    ELSE IF d.mother_id_type \notin IdTypes THEN Raise(400, "mother_id_type", "", rows, sq)
    ELSE LET result == SelectHospital(rows, d.father_id, d.mother_id)
         IN  IF result # {}
             THEN Raise(400, "duplicate", CHOOSE h \in result : TRUE, rows, sq)
             ELSE Return("saved", {}, 0, InsertRow(rows, sq, d, t), NextRowId(rows, sq))

save_data(d, rows, sq, t) == ExceptException(save_data_body(d, rows, sq, t))

delete_old_entries(rows, sq, t) ==
    LET old == OldRows(rows, CutoffTime(t))
    IN  ExceptException(Return("deleted", {}, Cardinality(old), rows \ old, sq))

\* Variant: WHERE father_id = ?  (the mother is not compared)
search_data_body_FatherOnly(f, m, rows, sq) ==
    LET result == {r \in rows : r.father_id = f}
    IN  IF result = {} THEN Raise(404, "not_found", "", rows, sq)
        ELSE Return("data", result, 0, rows, sq)

search_data_body(f, m, rows, sq) ==
    LET result == Matching(rows, f, m)
    IN  IF result = {} THEN Raise(404, "not_found", "", rows, sq)
        ELSE Return("data", result, 0, rows, sq)

search_data(f, m, rows, sq) == ExceptException(search_data_body(f, m, rows, sq))

read_root(rows, sq) == Return("index.html", {}, 0, rows, sq)

----------------------------------------------------------------------------
(* Requests *)

Response(ep, r) ==
    [op |-> ep, status |-> r.status, reason |-> r.reason, wrapped |-> r.wrapped,
     hospital |-> r.hospital, data |-> r.data, deleted_count |-> r.deleted_count]

RECURSIVE SumOver(_, _)
SumOver(f, S) ==
    IF S = {} THEN 0
    ELSE LET x == CHOOSE y \in S : TRUE IN f[x] + SumOver(f, S \ {x})

\* The exploration covers every run in which a single endpoint is called
\* (up to and beyond its limit), and every mix of endpoints while none has
\* answered 429 and the counters hold fewer than MaxRequests calls in total.
CanRequest(ep) ==
    \/ DOMAIN last_reset \subseteq {ep}
    \/ throttled = {} /\ SumOver(call_count, DOMAIN call_count) < MaxRequests

\* Variant: a call whose handler ends in an error gives its unit back.
Call_RefundOnError(ep, result) ==
    LET rl == wrapper(ep, last_reset, call_count, now)
        restarted == ep \notin DOMAIN last_reset \/ rl.last_reset[ep] # last_reset[ep]
        r == IF rl.admit THEN result
             ELSE Raise(429, "rate_limit", "", births, sqlite_sequence)
    IN  /\ last_reset' = rl.last_reset
        /\ call_count' = IF rl.admit /\ r.status # 200
                          THEN (ep :> rl.call_count[ep] - 1) @@ rl.call_count
                          ELSE rl.call_count
        /\ executed' = [executed EXCEPT ![ep] =
                            (IF restarted THEN 0 ELSE @) + (IF rl.admit THEN 1 ELSE 0)]
        /\ issued' = issued \cup {x.id : x \in r.births \ births}
        /\ purged' = purged \cup {<<x.father_id, x.mother_id>> : x \in births \ r.births}
        /\ throttled' = IF rl.admit THEN throttled ELSE throttled \cup {ep}
        /\ births' = r.births
        /\ sqlite_sequence' = r.sqlite_sequence
        /\ last' = Response(ep, r)
        /\ UNCHANGED <<now, ticks>>

\* One call of the decorated endpoint function: the wrapper, then the
\* handler `result` if the call is let through.
Call(ep, result) ==
    LET rl == wrapper(ep, last_reset, call_count, now)
        restarted == ep \notin DOMAIN last_reset \/ rl.last_reset[ep] # last_reset[ep]
        r == IF rl.admit THEN result
             ELSE Raise(429, "rate_limit", "", births, sqlite_sequence)
    IN  /\ last_reset' = rl.last_reset
        /\ call_count' = rl.call_count
        /\ executed' = [executed EXCEPT ![ep] =
                            (IF restarted THEN 0 ELSE @) + (IF rl.admit THEN 1 ELSE 0)]
        /\ issued' = issued \cup {x.id : x \in r.births \ births}
        /\ purged' = purged \cup {<<x.father_id, x.mother_id>> : x \in births \ r.births}
        /\ throttled' = IF rl.admit THEN throttled ELSE throttled \cup {ep}
        /\ births' = r.births
        /\ sqlite_sequence' = r.sqlite_sequence
        /\ last' = Response(ep, r)
        /\ UNCHANGED <<now, ticks>>

\* POST /save-data/ with a body the framework rejects: 422, the endpoint
\* function (the wrapper) is not called.
SubmitInvalid(d) ==
    /\ CanRequest("save_data")
    /\ ~Validate(d)
    /\ last' = Response("save_data", Raise(422, "validation", "", births, sqlite_sequence))
    /\ UNCHANGED <<now, ticks, last_reset, call_count, births, sqlite_sequence,
                   executed, issued, purged, throttled>>

\* POST /save-data/
Submit(d) ==
    /\ CanRequest("save_data")
    /\ Validate(d)
    /\ Call("save_data", save_data(d, births, sqlite_sequence, now))

\* GET /search/?father_id=&mother_id=
Search(f, m) ==
    /\ CanRequest("search_data")
    /\ Call("search_data", search_data(f, m, births, sqlite_sequence))

\* DELETE /delete-old-entries/
Purge ==
    /\ CanRequest("delete_old_entries")
    /\ Call("delete_old_entries", delete_old_entries(births, sqlite_sequence, now))

\* GET /
Landing ==
    /\ CanRequest("read_root")
    /\ Call("read_root", read_root(births, sqlite_sequence))

\* The clock advances between requests.
Tick(d) ==
    /\ ticks < MaxTicks
    /\ now' = now + d
    /\ ticks' = ticks + 1
    /\ UNCHANGED <<last_reset, call_count, births, sqlite_sequence,
                   executed, issued, purged, throttled, last>>

SearchPairs == Pairs \cup {<<2, 1>>}

Init ==
    /\ now = 0
    /\ ticks = 0
    /\ last_reset = <<>>
    /\ call_count = <<>>
    /\ births = {}
    /\ sqlite_sequence = 0
    /\ executed = [ep \in Endpoints |-> 0]
    /\ issued = {}
    /\ purged = {}
    /\ throttled = {}
    /\ last = Response("none", Return("", {}, 0, {}, 0))

Next ==
    \/ \E d \in SubmitInputs : SubmitInvalid(d)
    \/ \E d \in SubmitInputs : Submit(d)
    \/ \E p \in SearchPairs : Search(p[1], p[2])
    \/ Purge
    \/ Landing
    \/ \E d \in TickSteps : Tick(d)

Spec == Init /\ [][Next]_vars

----------------------------------------------------------------------------
(* The store alone: Submit and Search over three pairs, of which two share *)
(* the father and two share the mother, at any time of the clock, while    *)
(* the counters hold fewer than MaxRequests calls.                         *)

WideInputs ==
    ValidInputs \cup {BirthDataOf("unified_number", <<2, 1>>, "Ma", "HB", GoodDate)}

WideSearchPairs == SearchPairs \cup {<<2, 2>>}

StoreGuard == SumOver(call_count, DOMAIN call_count) < MaxRequests

\* POST /save-data/
StoreSubmit(d) ==
    /\ StoreGuard
    /\ Validate(d)
    /\ Call("save_data", save_data(d, births, sqlite_sequence, now))

\* GET /search/?father_id=&mother_id=
StoreSearch(f, m) ==
    /\ StoreGuard
    /\ Call("search_data", search_data(f, m, births, sqlite_sequence))

NextStore ==
    \/ \E d \in WideInputs : StoreSubmit(d)
    \/ \E p \in WideSearchPairs : StoreSearch(p[1], p[2])
    \/ \E d \in TickSteps : Tick(d)

SpecStore == Init /\ [][NextStore]_vars

----------------------------------------------------------------------------
(* SpecMix: one endpoint is called up to and beyond its limit while the other
   endpoints are called before, between and after its calls. *)

MixSteps == {60, RetentionDays * SecondsPerDay}

MixInstants == {0, RetentionDays * SecondsPerDay, RetentionDays * SecondsPerDay + 60}

Flooded == {"save_data", "delete_old_entries"}

\* The exploration covers every run in which the calls counted in the open
\* windows, the busiest endpoint's left aside, number fewer than MaxRequests.
MixGuard ==
    SumOver(call_count, DOMAIN call_count)
        - MaxOf({call_count[e] : e \in DOMAIN call_count \cap Flooded}) < MaxRequests

\* POST /save-data/
MixSubmit(d) ==
    /\ MixGuard
    /\ Validate(d)
    /\ Call("save_data", save_data(d, births, sqlite_sequence, now))

\* GET /search/?father_id=&mother_id=
MixSearch(f, m) ==
    /\ MixGuard
    /\ Call("search_data", search_data(f, m, births, sqlite_sequence))

\* DELETE /delete-old-entries/
MixPurge ==
    /\ MixGuard
    /\ Call("delete_old_entries", delete_old_entries(births, sqlite_sequence, now))

\* GET /
MixLanding ==
    /\ MixGuard
    /\ Call("read_root", read_root(births, sqlite_sequence))

\* The clock advances between requests, from one of the instants below to
\* the next.
MixTick(d) ==
    /\ now + d \in MixInstants
    /\ now' = now + d
    /\ ticks' = ticks + 1
    /\ UNCHANGED <<last_reset, call_count, births, sqlite_sequence,
                   executed, issued, purged, throttled, last>>

MixPairs == {<<1, 1>>}

NextMix ==
    \/ \E d \in {x \in ValidInputs : x.hospital_name = "HA"} : MixSubmit(d)
    \/ \E p \in MixPairs : MixSearch(p[1], p[2])
    \/ MixPurge
    \/ MixLanding
    \/ \E d \in MixSteps : MixTick(d)

SpecMix == Init /\ [][NextMix]_vars

----------------------------------------------------------------------------
(* Vocabulary of the properties *)

\* A step that serves a request to endpoint ep (the clock stands still
\* while a request is served; last' is its response).
Serves(ep) == now' = now /\ last'.op = ep

\* The endpoint function of ep (the wrapper) is called in this step.
CallsWrapper(ep) == Serves(ep) /\ last'.status # 422

\* A call to ep arriving now starts a new window.
StartsWindow(ep) == ep \notin DOMAIN last_reset \/ now - last_reset[ep] >= Period(ep)

\* Calls already let through in the window a call arriving now belongs to.
UsedInWindow(ep) == IF StartsWindow(ep) THEN 0 ELSE executed[ep]

SamePair(r, q) == r.father_id = q.father_id /\ r.mother_id = q.mother_id

Ids(rows) == {r.id : r \in rows}

\* The instant a created_at text denotes, in seconds.
Instant(c) == c[1] * SecondsPerDay + c[2] * 3600 + c[3] * 60 + c[4]

----------------------------------------------------------------------------
(* C1..C10 *)

\* C1: in every reachable state no two rows of births share the same
\* (father_id, mother_id) pair, and a Submit succeeds only for a pair that no
\* row held when it was served, in whatever order concurrent requests run.
C1_UniquePairs ==
    /\ [](\A r, q \in births : SamePair(r, q) => r = q)
    /\ [][\A d \in ValidInputs :
            Submit(d) /\ last'.status = 200
                => Matching(births, d.father_id, d.mother_id) = {}]_vars

\* C1 witness: a second Submit of a stored pair has been turned down.
C1_Witness ==
    last.op = "save_data" /\ last.reason = "duplicate" /\ Cardinality(births) = 1

\* C2 (as claimed): a Submit let through by the limiter whose pair is already
\* stored is answered with status 400 and the stored row's hospital_name.
C2_DuplicateIs400 ==
    [][\A d \in ValidInputs :
        LET hit == Matching(births, d.father_id, d.mother_id)
        IN  Submit(d) /\ last'.status # 429 /\ hit # {}
                => last'.status = 400 /\ last'.hospital \in {r.hospital_name : r \in hit}]_vars

\* C3 (as claimed): a Search let through by the limiter whose pair matches no
\* row is answered with status 404.
C3_NotFoundIs404 ==
    [][\A p \in SearchPairs :
        Search(p[1], p[2]) /\ last'.status # 429 /\ Matching(births, p[1], p[2]) = {}
            => last'.status = 404]_vars

\* C4: within one window exactly the first `calls` calls of an endpoint are
\* let through and every further call is answered 429; the counter of an
\* endpoint never exceeds its limit.
C4_FixedWindow ==
    /\ [](\A ep \in DOMAIN call_count : call_count[ep] <= Calls(ep))
    /\ [][\A ep \in Endpoints :
            CallsWrapper(ep) => (last'.status = 429 <=> UsedInWindow(ep) >= Calls(ep))]_vars

\* C4 witness: the 101st call of the landing page in one window is refused.
C4_Witness ==
    last.op = "read_root" /\ last.status = 429 /\ call_count["read_root"] = RootCalls

\* C5: no update of a counter is lost: the counter of every endpoint equals
\* the number of calls let through in its current window, which never
\* exceeds the limit.
C5_CounterExact ==
    \A ep \in DOMAIN call_count :
        call_count[ep] = executed[ep] /\ executed[ep] <= Calls(ep)

\* C5 witness: the purge counter stands at its limit after five calls were
\* let through and a sixth was refused.
C5_Witness ==
    /\ "delete_old_entries" \in throttled
    /\ call_count["delete_old_entries"] = PurgeCalls
    /\ executed["delete_old_entries"] = PurgeCalls
    /\ last.op = "delete_old_entries" /\ last.status = 429

C7_EverySubmitStored ==
    [][\A d \in ValidInputs :
        Submit(d) /\ Matching(births, d.father_id, d.mother_id) = {}
            => /\ Cardinality(births') = Cardinality(births) + 1
               /\ Cardinality(Ids(births')) = Cardinality(births')]_vars

\* C7 (amended): a valid Submit of a pair that is not stored adds exactly one
\* row, carrying the submitted values and an id no row has or had, when the
\* submission bucket has room in its window; when the bucket is exhausted it
\* is answered 429 and adds nothing.  So N such Submits of distinct pairs
\* store N rows with N distinct ids exactly when the bucket has room for N.
C7_AdmittedSubmitStored ==
    [][\A d \in ValidInputs :
        Submit(d) /\ Matching(births, d.father_id, d.mother_id) = {}
            => IF UsedInWindow("save_data") < SaveCalls
               THEN /\ last'.status = 200
                    /\ \E r \in births' \ births :
                          /\ births' = births \cup {r}
                          /\ r.father_id = d.father_id /\ r.mother_id = d.mother_id
                          /\ r.hospital_name = d.hospital_name
                          /\ r.id \notin Ids(births) \cup issued
                    /\ Cardinality(Ids(births')) = Cardinality(births) + 1
               ELSE last'.status = 429 /\ births' = births]_vars

\* C7 witness: two Submits of distinct pairs have stored two rows with two ids.
C7_Witness ==
    /\ last.op = "save_data" /\ last.status = 200
    /\ Cardinality(births) = 2 /\ Cardinality(Ids(births)) = 2

\* C8: a call that arrives a full period or more after the window started is
\* let through, also after the window was exhausted: the window starts at
\* that call's time and the counter restarts from 0 and counts that call.
C8_WindowRestarts ==
    [][\A ep \in Endpoints :
        /\ CallsWrapper(ep)
        /\ ep \in DOMAIN last_reset
        /\ now - last_reset[ep] >= Period(ep)
        => /\ last'.status # 429
           /\ last_reset'[ep] = now
           /\ call_count'[ep] = 1]_vars

\* C8 witness: an endpoint that had answered 429 serves the first call of a
\* new window.
C8_Witness ==
    /\ last.op \in throttled
    /\ last.status # 429
    /\ last_reset[last.op] = now /\ now > 0
    /\ call_count[last.op] = 1

\* C9: the ids of the rows are pairwise distinct, every new row gets an id
\* larger than every id given out before, purged ones included.
C9_IdsNeverReused ==
    /\ [](\A r, q \in births : r.id = q.id => r = q)
    /\ [][\A r \in births' \ births : \A i \in issued \cup Ids(births) : r.id > i]_vars

\* C9 witness: a row was stored after the purge that emptied the table.
C9_Witness ==
    /\ Cardinality(births) = 1
    /\ \E r \in births : \E i \in issued : i < r.id /\ i \notin Ids(births)

\* C10: a Purge let through at time now removes exactly the rows created
\* before now - 30 days, keeps every other row and reports the number of rows
\* it removed (0 when there is none).
C10_PurgeExact ==
    [][Serves("delete_old_entries") /\ last'.status # 429
        => /\ last'.status = 200
           /\ births' = {r \in births :
                            ~(Instant(r.created_at) < now - RetentionDays * SecondsPerDay)}
           /\ last'.deleted_count = Cardinality(births \ births')]_vars

\* C10 witness: a Purge removed one row and kept a younger one.
C10_Witness ==
    /\ last.op = "delete_old_entries" /\ last.status = 200
    /\ last.deleted_count = 1 /\ births # {}

----------------------------------------------------------------------------
(* C11..C19 *)

\* C11: a stored row never changes, and it leaves the table only in a Purge
\* served when its age, now minus the instant of created_at, exceeds 30 days;
\* no request removes a younger row.
C11_OnlyOldRowsLeave ==
    [][/\ \A r \in births : \A q \in births' : q.id = r.id => q = r
       /\ \A r \in births \ births' :
            /\ Serves("delete_old_entries") /\ last'.status = 200
            /\ now - Instant(r.created_at) > RetentionDays * SecondsPerDay]_vars

\* C11 witness: a Purge was served while a row exactly 30 days old stayed.
C11_Witness ==
    /\ last.op = "delete_old_entries" /\ last.status = 200
    /\ \E r \in births : now - Instant(r.created_at) = RetentionDays * SecondsPerDay

\* C12: a Search let through for a pair that has a stored row returns exactly
\* the rows whose father_id and mother_id both equal the query values, and
\* leaves the table as it was.
C12_SearchExact ==
    [][\A p \in WideSearchPairs :
        /\ StoreSearch(p[1], p[2]) /\ last'.status # 429
        /\ \E r \in births : r.father_id = p[1] /\ r.mother_id = p[2]
        => /\ last'.status = 200
           /\ last'.data = {r \in births : r.father_id = p[1] /\ r.mother_id = p[2]}
           /\ births' = births /\ sqlite_sequence' = sqlite_sequence]_vars

\* C12 witness: a Search returned one row while the table held another row
\* of the same father.
C12_Witness ==
    /\ last.op = "search_data" /\ last.status = 200
    /\ \E q \in last.data : \E r \in births \ last.data : r.father_id = q.father_id

\* The rows a Search by the pair of d returns right after the step.
FoundAfter(d) == search_data(d.father_id, d.mother_id, births', sqlite_sequence').data

C15_RejectedCallNoEffect ==
    [][\A ep \in Endpoints :
         CallsWrapper(ep) /\ last'.status = 429
             => /\ UNCHANGED <<last_reset, call_count, births, sqlite_sequence>>
                /\ UNCHANGED <<executed, issued, purged>>
                /\ last'.data = {} /\ last'.deleted_count = 0]_vars

\* C15 witness: a Purge was answered 429 while the table held a row older than
\* the retention period, after Submit had been called as well.
C15_Witness ==
    /\ last.op = "delete_old_entries" /\ last.status = 429
    /\ OldRows(births, CutoffTime(now)) # {}
    /\ "save_data" \in DOMAIN call_count

\* The endpoint's window is open and full.
Exhausted(ep) ==
    /\ ep \in DOMAIN call_count
    /\ now - last_reset[ep] < Period(ep)
    /\ call_count[ep] >= Calls(ep)

\* C16: endpoints are limited independently: a call to one endpoint, let
\* through or not, leaves the counter and window start of every other endpoint
\* as they were, and a call is answered 429 only when its own endpoint has
\* used up its own window, whatever the state of the others.
C16_EndpointsIndependent ==
    [][\A ep \in Endpoints :
         CallsWrapper(ep)
             => /\ \A o \in Endpoints \ {ep} :
                     /\ (o \in DOMAIN last_reset') = (o \in DOMAIN last_reset)
                     /\ (o \in DOMAIN call_count') = (o \in DOMAIN call_count)
                     /\ o \in DOMAIN last_reset
                            => /\ last_reset'[o] = last_reset[o]
                               /\ call_count'[o] = call_count[o]
                /\ last'.status = 429 => UsedInWindow(ep) >= Calls(ep)]_vars

\* C16 witness: with Submit's window full, a Search was let through and found
\* the row.
C16_Witness ==
    /\ Exhausted("save_data")
    /\ last.op = "search_data" /\ last.status = 200
    /\ call_count["search_data"] >= 1

\* C17: the first call ever made to an endpoint opens that endpoint's window
\* at the call's own time with a counter of 0, so the call is let through and
\* counted as the first of the window, whatever the time since the start and
\* whatever calls other endpoints have had; the window then stays open until
\* a call arrives a full period after that first call.
C17_FirstCallOpensWindow ==
    [][\A ep \in Endpoints :
         CallsWrapper(ep)
             => /\ ep \notin DOMAIN last_reset
                    => /\ last'.status # 429
                       /\ last_reset'[ep] = now
                       /\ call_count'[ep] = 1
                /\ ep \in DOMAIN last_reset /\ now - last_reset[ep] < Period(ep)
                    => last_reset'[ep] = last_reset[ep]]_vars

\* C17 witness: Purge was first called 60 seconds after the start, after
\* Submit had been called at the start; its window starts at 60.
C17_Witness ==
    /\ "save_data" \in DOMAIN last_reset /\ last_reset["save_data"] = 0
    /\ "delete_old_entries" \in DOMAIN last_reset
    /\ last_reset["delete_old_entries"] = 60
    /\ call_count["delete_old_entries"] = 1
    /\ last.op = "delete_old_entries" /\ last.status = 200

\* C18: the limiter counts the calls it lets through, whatever their outcome:
\* a call let through adds exactly one to the counter of its window, also
\* when the handler ends in an error, and a counter only goes down when a new
\* window starts.
C18_CountsAdmittedCalls ==
    [][/\ \A ep \in Endpoints :
            CallsWrapper(ep) /\ last'.status # 429
                => call_count'[ep]
                     = (IF StartsWindow(ep) THEN 0 ELSE call_count[ep]) + 1
       /\ \A ep \in DOMAIN call_count :
            call_count'[ep] < call_count[ep]
                => Serves(ep) /\ StartsWindow(ep)]_vars

\* C18 witness: a Submit of a pair already stored ended in an error and is the
\* second call counted in Submit's window.
C18_Witness ==
    /\ last.op = "save_data" /\ last.status = 500 /\ last.reason = "duplicate"
    /\ call_count["save_data"] = 2
    /\ Cardinality(births) = 1

\* C19: a duplicate is a pair held by a row now in the table, not a pair ever
\* stored: a valid Submit that is let through, for a pair whose row a Purge has
\* removed and which no row holds now, is answered 200, and its new row has an
\* id greater than every id given before.
C19_PurgedPairAcceptedAgain ==
    [][\A d \in ValidInputs :
         /\ <<d.father_id, d.mother_id>> \in purged
         /\ Matching(births, d.father_id, d.mother_id) = {}
         /\ CallsWrapper("save_data") /\ last'.status # 429
         /\ Submit(d)
         => /\ last'.status = 200
            /\ \E q \in births' \ births :
                 /\ q.father_id = d.father_id /\ q.mother_id = d.mother_id
                 /\ \A i \in issued : q.id > i
            /\ Cardinality(births' \ births) = 1]_vars

\* C19 witness: the pair of a purged row is held again by a row whose id is
\* greater than an id no longer in the table, after a Submit answered 200.
C19_Witness ==
    /\ last.op = "save_data" /\ last.status = 200
    /\ \E r \in births :
         /\ <<r.father_id, r.mother_id>> \in purged
         /\ \E i \in issued \ Ids(births) : i < r.id

====
